---- MODULE Spec2Model ----
(***************************************************************************)
(* Axuy peers (src/axuy/peer.py, src/axuy/pico.py, src/axuy/misc.py).      *)
(*                                                                         *)
(* Every address of Addr may hold one peer process.  A process is built by *)
(* Peer.__init__ (alone, or by a bootstrap exchange with a seeder) and     *)
(* then runs three threads (Peer.run): the accept loop Peer.serve, the     *)
(* receive loop Peer.pull and the tick loop Peer.update, whose steps are   *)
(* sync, control, the shard simulation and push.                           *)
(*                                                                         *)
(* The geometry of the world is abstracted here: positions and rotations   *)
(* are tokens, health is counted in units of the damage of one unit of     *)
(* shard power, and the outcome of a shard's flight (fly on, bounce, hit a *)
(* pico) is a nondeterministic choice.                                     *)
(***************************************************************************)
EXTENDS Integers, Sequences, FiniteSets, Bags, TLC

----------------------------------------------------------------------------
(* Bounds of the model *)

NPeers == 3         \* addresses that may run a peer
MaxTicks == 3       \* ticks started in a run
MaxNet == 2         \* datagrams a UDP socket buffers; more are lost
MaxEvents == 1      \* events from outside: a click that shoots, a window
                    \* closed, a foreign datagram, a failing socket call
NBlocks == 2        \* building blocks of a map (48 in misc.mapidgen)

(* Program constants *)

None == 0           \* config.seeder is None
SHARD_LIFE == 3     \* bounces
FULL == 9           \* health 1.0, in units of 1/(SHARD_LIFE*RPS), rounded down
maxsize == 0        \* Queue(): no upper bound on the queue size

Addr == 1..NPeers
Stranger == NPeers + 1  \* the address of a process that is no peer
Blocks == 0..(NBlocks - 1)
PosVals == {0, 1}     \* positions, as tokens
SpawnVals == {0}      \* positions a new pico may get
RotVals == {2}        \* rotations, as tokens

Max(a, b) == IF a > b THEN a ELSE b
Min(a, b) == IF a < b THEN a ELSE b
Range(s) == {s[i] : i \in DOMAIN s}
MaxOf(S) == IF S = {} THEN 0 ELSE CHOOSE m \in S : \A n \in S : n <= m

----------------------------------------------------------------------------
(* misc.py *)

\* map.npy: the occupancy of each building block (a token per block).
SPACE == [i \in Blocks |-> i % 2]

\* mapidgen(): a random permutation of the block indices.
mapidgen == {m \in [1..NBlocks -> Blocks] : \A i, j \in 1..NBlocks : m[i] = m[j] => i = j}

\* mapgen(mapid): the blocks of SPACE in the order of the map ID.
mapgen(id) == [k \in DOMAIN id |-> SPACE[id[k]]]

----------------------------------------------------------------------------
(* pickle: dumps wraps a value into bytes, loads unwraps well-formed bytes *)

dumps(v) == [pickle |-> v]
Undecodable == [junk |-> 0]
decodable(b) == "pickle" \in DOMAIN b
loads(b) == b.pickle

----------------------------------------------------------------------------
(* pico.py *)

NoShards == [i \in {} |-> 0]
NoPicos == [a \in {} |-> 0]

\* Pico.__init__(address, space): full health, a random placeable position,
\* a random rotation, no shards.
Pico(x, r) == [health |-> FULL, pos |-> x, rot |-> r, shards |-> NoShards]
NewPicos == {Pico(x, r) : x \in SpawnVals, r \in RotVals}

\* Pico.dead
\* A pico with no health left counted as dead too.
deadAtZero(c) == c.health <= 0

dead(c) == c.health < 0

\* Regeneration with no cap.
RegenUncapped(h) == {h, h + 1}

\* min(1.0, health + log10(health + 1) * dt) for a health that is not below
\* zero: nothing is added to a health of 0, and what is added to another may
\* be less than a unit.
Regen(h) == IF h = 0 THEN {0} ELSE {h, Min(FULL, h + 1)}

\* Mutant of PicoSync: the position of the snapshot is not taken over.
PicoSyncKeepsPos(c, s) ==
    [health |-> s[1], pos |-> c.pos, rot |-> s[3],
     shards |-> [i \in DOMAIN c.shards \cup DOMAIN s[4] |->
                    IF i \in DOMAIN s[4] THEN s[4][i] ELSE c.shards[i]]]

\* Pico.sync(health, position, rotation, shards): every shard of the snapshot
\* is overwritten (Shard.sync) or created; the others are kept.
PicoSync(c, s) ==
    [health |-> s[1], pos |-> s[2], rot |-> s[3],
     shards |-> [i \in DOMAIN c.shards \cup DOMAIN s[4] |->
                    IF i \in DOMAIN s[4] THEN s[4][i] ELSE c.shards[i]]]

\* Pico.add_shard via Pico.shoot: the new id is one more than the largest.
add_shard(c) ==
    [c EXCEPT !.shards = [i \in DOMAIN c.shards \cup {MaxOf(DOMAIN c.shards) + 1} |->
                            IF i \in DOMAIN c.shards THEN c.shards[i] ELSE SHARD_LIFE]]

\* Pico.update(right, upward, forward): respawn when dead, otherwise recover
\* health (at most up to full) and try to move.
PicoUpdate(c) ==
    IF dead(c) THEN NewPicos
    ELSE {[c EXCEPT !.health = h, !.pos = x] :
            h \in Regen(c.health), x \in PosVals}

\* The snapshot Peer.push pickles: [health, pos, rot, {id: power}].
Snapshot(c) == <<c.health, c.pos, c.rot, c.shards>>

----------------------------------------------------------------------------
(* Numbers of the detailed geometry (misc.py, pico.py)                      *)
(*                                                                         *)
(* A length is an integer number of units, RPICO units being the radius of *)
(* a pico, a sixth of a map cell.  Coordinates are floats in the code: a   *)
(* float here is a number with a significand of Mant bits, and the result  *)
(* of an addition is rounded to the nearest float, ties to even.           *)

Mant == 8           \* bits of the significand of a float
RPICO == 8          \* norm(TETRAVERTICES[0]) = 1/6 of a cell
RSHARD == 4         \* norm(OCTOVERTICES[0]) = sqrt(3)/18 of a cell, rounded down
Cell == 6 * RPICO   \* the side of a map cell
X == 12 * Cell      \* the period of the x and y axes
Z == 9 * Cell       \* the period of the z axis
True == "True"
False == "False"
IndexError == "IndexError"
Nothing == "Nothing"    \* what a call that returns has raised

Abs(n) == IF n < 0 THEN 0 - n ELSE n

RECURSIVE ulp(_, _)
\* The gap between neighbouring floats at the magnitude a, found from u up.
ulp(a, u) == IF a < (2 ^ Mant) * u THEN u ELSE ulp(a, 2 * u)

\* The float nearest to the number n, ties to the even significand.
fl(n) ==
    LET a == Abs(n)
        u == ulp(a, 1)
        lo == (a \div u) * u
        up == IF 2 * (a - lo) > u THEN TRUE
              ELSE IF 2 * (a - lo) < u THEN FALSE
              ELSE (lo \div u) % 2 = 1
        r == IF up THEN lo + u ELSE lo
    IN  IF n < 0 THEN 0 - r ELSE r

\* C fmod(x, P): the exact remainder, with the sign of x.
fmod(x, P) == IF x < 0 THEN 0 - ((0 - x) % P) ELSE x % P

\* x % P on floats with P > 0: fmod, and a negative remainder has P added to
\* it, a float addition.
wrap(x, P) ==
    LET m == fmod(x, P)
    IN  IF m < 0 THEN fl(m + P) ELSE m

\* twelve(x) = int(x % 12), nine(x) = int(x % 9): an index of a cell.
twelve(x) == wrap(x, X) \div Cell
nine(x) == wrap(x, Z) \div Cell

\* The cells a sphere of radius r at (x, y, z) is tested against.
product(x, y, z, r) ==
    {twelve(fl(x - r)), twelve(x), twelve(fl(x + r))}
        \X {twelve(fl(y - r)), twelve(y), twelve(fl(y + r))}
        \X {nine(fl(z - r)), nine(z), nine(fl(z + r))}

\* The indices space[i][j][k] accepts: a space has the shape (12, 12, 9).
shape == (0..11) \X (0..11) \X (0..8)

\* placeable(space, x, y, z, r): any() goes through the cells in the order of
\* iteration of three sets and stops at the first occupied one; an index out
\* of the shape raises IndexError if it is met before.  The set of the
\* possible outcomes, among True, False and IndexError.
placeable(occupied, x, y, z, r) ==
    LET cells == product(x, y, z, r)
        hit == cells \cap occupied
        out == cells \ shape
    IN  (IF hit = {} /\ out = {} THEN {True} ELSE {})
            \cup (IF hit # {} THEN {False} ELSE {})
            \cup (IF out # {} THEN {IndexError} ELSE {})

----------------------------------------------------------------------------
(* Shard and Pico in detail (pico.py): positions are triples of floats, a   *)
(* rotation is a matrix of three rows (right, upward, forward).             *)

\* Shard.pos (setter): the coordinates are wrapped into the map.
ShardPos(position) ==
    <<wrap(position[1], X), wrap(position[2], X), wrap(position[3], Z)>>

\* Shard.__init__(address, space, position, rotation, power), and Shard.sync,
\* which sets the same three attributes of an existing shard.
Shard(position, rotation, power) ==
    [pos |-> ShardPos(position), rot |-> rotation, power |-> power]

\* Pico.__init__(address, space, health, position, rotation)
Pico__init__(health, position, rotation) ==
    [health |-> health, pos |-> position, rot |-> rotation, shards |-> NoShards,
     recoil_u |-> <<0, 0, 0>>, recoil_t |-> 0]

\* Mutant of Pico_sync: the shards are replaced by those of the snapshot.
Pico_sync_replacing(c, health, position, rotation, shards) ==
    [c EXCEPT !.health = health, !.pos = position, !.rot = rotation,
              !.shards = [i \in DOMAIN shards |->
                            Shard(shards[i][1], shards[i][2], shards[i][3])]]

\* Mutant of Pico_sync: every shard of the snapshot is created under an id
\* the pico does not have yet.
Pico_sync_appending(c, health, position, rotation, shards) ==
    LET top == MaxOf(DOMAIN c.shards)
    IN  [c EXCEPT !.health = health, !.pos = position, !.rot = rotation,
                  !.shards = [i \in DOMAIN c.shards \cup {top + j : j \in DOMAIN shards} |->
                                IF i \in DOMAIN c.shards THEN c.shards[i]
                                ELSE Shard(shards[i - top][1], shards[i - top][2],
                                           shards[i - top][3])]]

\* Pico.sync(health, position, rotation, shards): the attributes are
\* overwritten; each shard of the snapshot is synchronized (Shard.sync) or,
\* on KeyError, created; no other shard is touched.
Pico_sync(c, health, position, rotation, shards) ==
    [c EXCEPT !.health = health, !.pos = position, !.rot = rotation,
              !.shards = [i \in DOMAIN c.shards \cup DOMAIN shards |->
                            IF i \in DOMAIN shards
                            THEN Shard(shards[i][1], shards[i][2], shards[i][3])
                            ELSE c.shards[i]]]

\* Time is counted in ticks (dt = 1): a pico moves by STEP units a tick when
\* it moves straight, and a recoil lasts RECOIL ticks (1 / RPS seconds).
STEP == RPICO
RECOIL == 2

\* normalized(right, upward, forward) @ self.rot, times dt * PICO_SPEED: the
\* vector is divided by the sum of its squares.
Stride(rot, right, upward, forward) ==
    LET n == right * right + upward * upward + forward * forward
    IN  [k \in 1..3 |->
            IF n = 0 THEN 0
            ELSE ((right * rot[1][k] + upward * rot[2][k] + forward * rot[3][k]) * STEP) \div n]

\* recoil_u * recoil_t * RPS, times dt * PICO_SPEED
Kick(c) == [k \in 1..3 |-> (c.recoil_u[k] * c.recoil_t * STEP) \div RECOIL]

\* The period of the axis k.
Period(k) == IF k = 3 THEN Z ELSE X

\* The move made with no test: every coordinate of the target is taken.
TriedUntested(c, occupied, target, k) ==
    {[self |-> [c EXCEPT !.pos = [j \in 1..3 |-> wrap(target[j], Period(j))]],
      raised |-> Nothing]}

RECURSIVE Tried(_, _, _, _)
\* The three tests of Pico.update, from the axis k on: the coordinate of the
\* target is taken, wrapped, if the pico is placeable with it in place of its
\* own.  The set of the possible results, each the pico and what was raised.
Tried(c, occupied, target, k) ==
    IF k > 3 THEN {[self |-> c, raised |-> Nothing]}
    ELSE LET at == [c.pos EXCEPT ![k] = target[k]]
         IN  UNION {IF o = IndexError THEN {[self |-> c, raised |-> IndexError]}
                    ELSE IF o = True
                    THEN Tried([c EXCEPT !.pos[k] = wrap(target[k], Period(k))],
                               occupied, target, k + 1)
                    ELSE Tried(c, occupied, target, k + 1) :
                    o \in placeable(occupied, at[1], at[2], at[3], RPICO)}

\* Pico.__init__ taking the first position drawn.
SpawnedAnywhere(occupied, spots, rots) ==
    {Pico__init__(FULL, x, r) : x \in spots, r \in rots}

\* Pico.__init__(address, space) with no position and no rotation: they are
\* drawn, the position until it is placeable.
Spawned(occupied, spots, rots) ==
    {Pico__init__(FULL, x, r) : x \in {x \in spots :
        True \in placeable(occupied, x[1], x[2], x[3], RPICO)}, r \in rots}

\* Pico.update(right, upward, forward): a dead pico is made anew; otherwise
\* health is recovered up to full, the recoil is added to the direction and
\* runs down, and the move is tried axis by axis.
Pico_update(c, occupied, spots, rots, right, upward, forward) ==
    IF dead(c)
    THEN {[self |-> n, raised |-> Nothing] : n \in Spawned(occupied, spots, rots)}
    ELSE UNION {LET d == Stride(c.rot, right, upward, forward)
                    target == [k \in 1..3 |-> fl(c.pos[k] + d[k] + Kick(c)[k])]
                IN  Tried([c EXCEPT !.health = h, !.recoil_t = Max(@ - 1, 0)],
                          occupied, target, 1) :
                h \in Regen(c.health)}

\* -v for a vector and for a matrix, v * n for a vector.
Neg(v) == [k \in DOMAIN v |-> 0 - v[k]]
NegRows(m) == [k \in DOMAIN m |-> Neg(m[k])]
Times(v, n) == [k \in DOMAIN v |-> v[k] * n]

\* Pico.add_shard(pos, rot): the new id is one more than the largest, the
\* shard is put a radius away from pos, against the recoil.
Pico_add_shard(c, pos, rot) ==
    LET i == MaxOf(DOMAIN c.shards) + 1
        at == [k \in 1..3 |-> fl(pos[k] - c.recoil_u[k] * RPICO)]
    IN  [c EXCEPT !.shards = [j \in DOMAIN c.shards \cup {i} |->
                                IF j = i THEN Shard(at, rot, SHARD_LIFE)
                                ELSE c.shards[j]]]

\* A shoot that takes no notice of the recoil.
Pico_shoot_recoiling(c, backward) ==
    IF dead(c) THEN c
    ELSE Pico_add_shard([c EXCEPT !.recoil_t = RECOIL,
                                  !.recoil_u = IF backward THEN c.rot[3] ELSE Neg(c.rot[3])],
                        IF backward THEN Neg(c.pos) ELSE c.pos,
                        IF backward THEN NegRows(c.rot) ELSE c.rot)

\* Mutant of Pico_shoot: the shot does not start the recoil timer.
Pico_shoot_untimed(c, backward) ==
    IF c.recoil_t # 0 \/ dead(c) THEN c
    ELSE IF backward
    THEN Pico_add_shard([c EXCEPT !.recoil_u = c.rot[3]], Neg(c.pos), NegRows(c.rot))
    ELSE Pico_add_shard([c EXCEPT !.recoil_u = Neg(c.rot[3])], c.pos, c.rot)

\* Pico.shoot(backward): nothing while the recoil lasts or when dead.
Pico_shoot(c, backward) ==
    IF c.recoil_t # 0 \/ dead(c) THEN c
    ELSE IF backward
    THEN Pico_add_shard([c EXCEPT !.recoil_t = RECOIL, !.recoil_u = c.rot[3]],
                        Neg(c.pos), NegRows(c.rot))
    ELSE Pico_add_shard([c EXCEPT !.recoil_t = RECOIL, !.recoil_u = Neg(c.rot[3])],
                        c.pos, c.rot)

\* Shard.update flies SHARD_SPEED / fps a tick, twice the stride of a pico.
SHARD_STEP == 2 * STEP

\* norm(pico.pos - self.pos) < RCOLL, RCOLL = RPICO * 2/3, on the squares:
\* the largest whole square below that of RCOLL.
RCOLL2 == (4 * RPICO * RPICO) \div 9

Norm2(u, v) ==
    (u[1] - v[1]) * (u[1] - v[1]) + (u[2] - v[2]) * (u[2] - v[2])
        + (u[3] - v[3]) * (u[3] - v[3])

MinOf(S) == CHOOSE x \in S : \A y \in S : x <= y

\* The matrix with the axis after k negated instead of k.
INVshifted(rot, k) == [i \in 1..3 |-> [rot[i] EXCEPT ![(k % 3) + 1] = 0 - @]]

\* rot @ INV[axis]: the component of the axis k of every row is negated.
INV(rot, k) == [i \in 1..3 |-> [rot[i] EXCEPT ![k] = 0 - @]]

\* Shard.should_bounce with one coordinate given: not placeable, or the
\* IndexError placeable raised.
should_bounce(s, occupied, k, value) ==
    LET at == [s.pos EXCEPT ![k] = value]
    IN  {IF o = True THEN False ELSE IF o = False THEN True ELSE o :
            o \in placeable(occupied, at[1], at[2], at[3], RSHARD)}

\* self.pos + self.forward / fps * SHARD_SPEED, the forward the last row of rot
Ahead(s) == [k \in 1..3 |-> fl(s.pos[k] + s.rot[3][k] * SHARD_STEP)]

RECURSIVE Bounced(_, _, _, _, _)
\* The loop of Shard.update over the axes, from the axis k on: the target was
\* computed before the loop; the rotation is reflected where the shard should
\* bounce.  The set of the possible results.
Bounced(s, occupied, target, bounced, k) ==
    IF k > 3 THEN {[self |-> s, bounced |-> bounced, raised |-> Nothing]}
    ELSE UNION {IF o = IndexError
                THEN {[self |-> s, bounced |-> bounced, raised |-> IndexError]}
                ELSE IF o = True
                THEN Bounced([s EXCEPT !.rot = INV(@, k)], occupied, target, TRUE, k + 1)
                ELSE Bounced(s, occupied, target, bounced, k + 1) :
                o \in should_bounce(s, occupied, k, target[k])}

\* The first half of Shard.update with a bounce counted for each axis.
MovedPerAxis(s, occupied) ==
    {IF b.raised # Nothing THEN b
     ELSE [b EXCEPT !.self = [b.self EXCEPT
            !.pos = ShardPos(Ahead(b.self)),
            !.power = @ - Cardinality({j \in 1..3 :
                            True \in should_bounce(s, occupied, j, Ahead(s)[j])})]] :
        b \in Bounced(s, occupied, Ahead(s), FALSE, 1)}

\* The first half of Shard.update: the bounces, then the move along the
\* forward the bounces left, through the setter of pos, and the power lowered
\* by one if the shard bounced.
Moved(s, occupied) ==
    {IF b.raised # Nothing THEN b
     ELSE [b EXCEPT !.self = [b.self EXCEPT !.pos = ShardPos(Ahead(b.self)),
                                            !.power = @ - (IF b.bounced THEN 1 ELSE 0)]] :
        b \in Bounced(s, occupied, Ahead(s), FALSE, 1)}

\* The hits with the damage left out: the shard loses its power all the same.
StruckHarmless(s, world, j) ==
    IF \E a \in j..Len(world) : Norm2(world[a].pos, s.pos) <= RCOLL2
    THEN [self |-> [s EXCEPT !.power = 0], picos |-> world]
    ELSE [self |-> s, picos |-> world]

RECURSIVE Struck(_, _, _)
\* The second half of Shard.update, from the j-th pico on: a pico within
\* RCOLL loses power / SHARD_LIFE / RPS of health, the shard all its power.
Struck(s, world, j) ==
    IF j > Len(world) THEN [self |-> s, picos |-> world]
    ELSE IF Norm2(world[j].pos, s.pos) <= RCOLL2
    THEN Struck([s EXCEPT !.power = 0],
                [world EXCEPT ![j].health = @ - s.power], j + 1)
    ELSE Struck(s, world, j + 1)

\* Shard.update(fps, picos)
Shard_update(s, occupied, world) ==
    {IF f.raised # Nothing
     THEN [self |-> f.self, picos |-> world, raised |-> f.raised]
     ELSE LET r == Struck(f.self, world, 1)
          IN  [self |-> r.self, picos |-> r.picos, raised |-> Nothing] :
        f \in Moved(s, occupied)}

\* if shard.power: shards[index] = shard
Kept(shards) == [i \in {j \in DOMAIN shards : shards[j].power # 0} |-> shards[i]]

RECURSIVE Shards_updated(_, _, _, _)
\* The loops of Peer.update over the picos, from the a-th on, and over the
\* shards of each, of which those in todo are left: each shard is updated in
\* the order of its id, and when a pico's shards are done those that have
\* power are kept.  An IndexError ends the loops where they are.
Shards_updated(world, occupied, a, todo) ==
    IF a > Len(world) THEN {[world |-> world, raised |-> Nothing]}
    ELSE IF todo = {}
    THEN Shards_updated([world EXCEPT ![a].shards = Kept(@)], occupied, a + 1,
                        IF a < Len(world) THEN DOMAIN world[a + 1].shards ELSE {})
    ELSE LET i == MinOf(todo)
         IN  UNION {LET w == [r.picos EXCEPT ![a].shards[i] = r.self]
                    IN  IF r.raised # Nothing THEN {[world |-> w, raised |-> r.raised]}
                        ELSE Shards_updated(w, occupied, a, todo \ {i}) :
                    r \in Shard_update(world[a].shards[i], occupied, world)}

----------------------------------------------------------------------------
(* State *)

VARIABLES
    running,    \* Peer.is_running: the window of the process is open
    seeder,     \* config.seeder of the process at this address, or None
    tickpc,     \* position of the main thread (Peer.__init__, run, update)
    servepc,    \* position of the thread running Peer.serve
    pullpc,     \* position of the thread running Peer.pull
    mapid,      \* Peer.mapid
    space,      \* Peer.space
    peers,      \* Peer.peers: the address book
    picos,      \* Peer.picos: address -> pico
    q,          \* Peer.q: queue of (data, addr)
    unfinished, \* Queue.unfinished_tasks of Peer.q
    net,        \* datagrams waiting in the UDP socket bound to the address
    conn,       \* the TCP connection of a joining peer to its seeder
    sent,       \* log of the sendto calls of the latest Peer.push
    nticks,     \* ticks started
    nevents,    \* events from outside so far
    \* one world in detail, for the methods of Pico and Shard
    solid,      \* Pico.space, Shard.space: the occupied cells of the map
    hero,       \* a pico, in detail
    foe,        \* another pico of the same world, or None
    last,       \* the latest call looked at: its name, arguments, result
    born        \* the ids Pico.add_shard has given to the shards of hero

\* The variables of the peers, but for the count of ticks, and the variables
\* of the world in detail.
peer == <<running, seeder, tickpc, servepc, pullpc, mapid, space, peers, picos,
          q, unfinished, net, conn, sent, nevents>>
detail == <<solid, hero, foe, last, born>>
vars == <<peer, nticks, detail>>

NoCall == [call |-> "none"]

\* No process yet at any address.
NoPeer ==
    /\ running = [p \in Addr |-> TRUE]
    /\ seeder = [p \in Addr |-> None]
    /\ tickpc = [p \in Addr |-> "absent"]
    /\ servepc = [p \in Addr |-> "off"]
    /\ pullpc = [p \in Addr |-> "off"]
    /\ mapid = [p \in Addr |-> <<>>]
    /\ space = [p \in Addr |-> <<>>]
    /\ peers = [p \in Addr |-> <<>>]
    /\ picos = [p \in Addr |-> NoPicos]
    /\ q = [p \in Addr |-> <<>>]
    /\ unfinished = [p \in Addr |-> 0]
    /\ net = [p \in Addr |-> EmptyBag]
    /\ conn = [p \in Addr |-> [state |-> "none", recvd |-> <<>>]]
    /\ sent = [p \in Addr |-> <<>>]
    /\ nticks = 0
    /\ nevents = 0

\* The peers, from the start; no world is looked at in detail.
Init ==
    /\ NoPeer
    /\ solid = {}
    /\ hero = None
    /\ foe = None
    /\ last = NoCall
    /\ born = {}

\* The UDP socket of the address is bound (Peer.__init__ .. Peer.__exit__).
bound(p) == p \in Addr /\ tickpc[p] \notin {"absent", "closed"}

\* The TCP server of the address is listening (inside Peer.serve).
listening(p) == servepc[p] \in {"accept", "send"}

\* sock.sendto(data, dst) from src: the datagram reaches the socket bound to
\* dst, or is lost when none is bound or its buffer is full.
sendto(n, src, dst, data) ==
    IF bound(dst) /\ BagCardinality(n[dst]) < MaxNet
    THEN [n EXCEPT ![dst] = @ (+) SetToBag({[data |-> data, addr |-> src]})]
    ELSE n

----------------------------------------------------------------------------
(* Peer.__init__ and Peer.run *)

\* The end of Peer.__init__ and the start of Peer.run: the space is generated
\* from the map ID, the protagonist is created and is the only pico, and the
\* threads of serve and pull are started.
Construct(p, id, book, pico) ==
    /\ mapid' = [mapid EXCEPT ![p] = id]
    /\ peers' = [peers EXCEPT ![p] = book]
    /\ space' = [space EXCEPT ![p] = mapgen(id)]
    /\ picos' = [picos EXCEPT ![p] = [a \in {p} |-> pico]]
    /\ tickpc' = [tickpc EXCEPT ![p] = "loop"]
    /\ servepc' = [servepc EXCEPT ![p] = "accept"]
    /\ pullpc' = [pullpc EXCEPT ![p] = "recvfrom"]

\* Mutant of Bootstrapped: the joiner keeps the address book of the reply but
\* generates a map of its own.
BootstrappedOwnMap(bytes) ==
    [mapid |-> CHOOSE id \in mapidgen : id # loads(bytes)[1], peers |-> loads(bytes)[2]]

\* The map ID and the address book a joiner takes from the bytes it received.
Bootstrapped(bytes) == [mapid |-> loads(bytes)[1], peers |-> loads(bytes)[2]]

\* Addresses are taken in order: which address a new process binds makes no
\* difference to what follows.
next(p) == tickpc[p] = "absent" /\ \A r \in Addr : r < p => tickpc[r] # "absent"

\* Peer.__init__ with config.seeder None: a new map, an empty address book.
\* Only the first process starts this way: a second one would start a session
\* of its own, whose peers and whose addresses the first session never meets.
Start(p) ==
    /\ next(p)
    /\ \A r \in Addr : tickpc[r] = "absent"
    /\ \E id \in mapidgen, pico \in NewPicos : Construct(p, id, <<>>, pico)
    /\ UNCHANGED <<running, seeder, q, unfinished, net, conn, sent, nticks,
                   nevents>>

\* Peer.__init__ with a seeder: the UDP socket is bound, the TCP client
\* connects to the seeder (which must be listening) and waits in recv.
Connect(p, s) ==
    /\ next(p)
    /\ p # s
    /\ listening(s)
    /\ tickpc' = [tickpc EXCEPT ![p] = "recv"]
    /\ seeder' = [seeder EXCEPT ![p] = s]
    /\ conn' = [conn EXCEPT ![p] = [state |-> "pending", recvd |-> <<>>]]
    /\ UNCHANGED <<running, servepc, pullpc, mapid, space, peers, picos, q,
                   unfinished, net, sent, nticks, nevents>>

\* Peer.__init__ with a seeder, after client.recv returned the reply.
Join(p) ==
    /\ tickpc[p] = "recv"
    /\ conn[p].recvd # <<>>
    /\ \E pico \in NewPicos :
         Construct(p, Bootstrapped(conn[p].recvd[1]).mapid,
                      Bootstrapped(conn[p].recvd[1]).peers, pico)
    /\ UNCHANGED <<running, seeder, q, unfinished, net, conn, sent, nticks,
                   nevents>>

\* glfw.window_should_close becomes true: the user closes the window.
Close(p) ==
    /\ tickpc[p] \notin {"absent", "recv", "closed"}
    /\ running[p]
    /\ nevents < MaxEvents
    /\ nevents' = nevents + 1
    /\ running' = [running EXCEPT ![p] = FALSE]
    /\ UNCHANGED <<seeder, tickpc, servepc, pullpc, mapid, space, peers, picos,
                   q, unfinished, net, conn, sent, nticks>>

----------------------------------------------------------------------------
(* Peer.serve *)

\* Mutant of Reply: the own address is left out of the list.
ReplyWithoutSelf(s) == dumps(<<mapid[s], peers[s]>>)

\* The reply of the Bootstrap Service: the pickled map ID and address book
\* followed by the own address.
Reply(s) == dumps(<<mapid[s], peers[s] \o <<s>>>>)

\* server.accept() returns the connection of a waiting joiner.
ServeAccept(s) ==
    /\ servepc[s] = "accept"
    /\ \E p \in Addr :
         /\ seeder[p] = s
         /\ conn[p].state = "pending"
         /\ conn' = [conn EXCEPT ![p].state = "accepted"]
    /\ servepc' = [servepc EXCEPT ![s] = "send"]
    /\ UNCHANGED <<running, seeder, tickpc, pullpc, mapid, space, peers, picos,
                   q, unfinished, net, sent, nticks, nevents>>

\* conn.send(...); conn.close(); then the loop test of serve.
ServeSend(s) ==
    /\ servepc[s] = "send"
    /\ \E p \in Addr :
         /\ seeder[p] = s
         /\ conn[p].state = "accepted"
         /\ conn' = [conn EXCEPT ![p] = [state |-> "closed",
                                         recvd |-> Append(@.recvd, Reply(s))]]
    /\ servepc' = [servepc EXCEPT ![s] = IF running[s] THEN "accept" ELSE "done"]
    /\ UNCHANGED <<running, seeder, tickpc, pullpc, mapid, space, peers, picos,
                   q, unfinished, net, sent, nticks, nevents>>

----------------------------------------------------------------------------
(* Peer.pull *)

\* Queue.full(): only a queue with a positive maxsize is ever full.
full(queue) == 0 < maxsize /\ maxsize <= Len(queue)

\* self.q.put(self.sock.recvfrom(1 << 16)), then the loop test of pull.
PullRecv(p) ==
    /\ pullpc[p] = "recvfrom"
    /\ bound(p)
    /\ ~full(q[p])
    /\ \E m \in BagToSet(net[p]) :
         /\ net' = [net EXCEPT ![p] = @ (-) SetToBag({m})]
         /\ q' = [q EXCEPT ![p] = Append(@, m)]
    /\ unfinished' = [unfinished EXCEPT ![p] = @ + 1]
    /\ pullpc' = [pullpc EXCEPT ![p] = IF running[p] THEN "recvfrom" ELSE "empty"]
    /\ UNCHANGED <<running, seeder, tickpc, servepc, mapid, space, peers, picos,
                   conn, sent, nticks, nevents>>

\* self.sock.recvfrom raises OSError: nothing in pull catches it.
PullRaise(p) ==
    /\ pullpc[p] = "recvfrom"
    /\ nevents < MaxEvents
    /\ nevents' = nevents + 1
    /\ pullpc' = [pullpc EXCEPT ![p] = "raised"]
    /\ UNCHANGED <<running, seeder, tickpc, servepc, mapid, space, peers, picos,
                   q, unfinished, net, conn, sent, nticks>>

\* while not self.q.empty(): the test of the shutdown drain.
PullEmpty(p) ==
    /\ pullpc[p] = "empty"
    /\ pullpc' = [pullpc EXCEPT ![p] = IF q[p] = <<>> THEN "done" ELSE "get"]
    /\ UNCHANGED <<running, seeder, tickpc, servepc, mapid, space, peers, picos,
                   q, unfinished, net, conn, sent, nticks, nevents>>

\* self.q.get(); self.q.task_done(): get waits for an item.
PullGet(p) ==
    /\ pullpc[p] = "get"
    /\ q[p] # <<>>
    /\ q' = [q EXCEPT ![p] = Tail(@)]
    /\ unfinished' = [unfinished EXCEPT ![p] = @ - 1]
    /\ pullpc' = [pullpc EXCEPT ![p] = "empty"]
    /\ UNCHANGED <<running, seeder, tickpc, servepc, mapid, space, peers, picos,
                   net, conn, sent, nticks, nevents>>

\* A process that is no peer, at an address of its own, sends bytes that are
\* no pickle to the address.
Foreign(p) ==
    /\ bound(p)
    /\ nevents < MaxEvents
    /\ nevents' = nevents + 1
    /\ net' = sendto(net, Stranger, p, Undecodable)
    /\ UNCHANGED <<running, seeder, tickpc, servepc, pullpc, mapid, space, peers,
                   picos, q, unfinished, conn, sent, nticks>>

----------------------------------------------------------------------------
(* Peer.run and Peer.update *)

\* while self.is_running in Peer.run, and the time keeping of Peer.update.
Loop(p) ==
    /\ tickpc[p] = "loop"
    /\ IF running[p]
       THEN /\ nticks < MaxTicks
            /\ nticks' = nticks + 1
            /\ tickpc' = [tickpc EXCEPT ![p] = "sync"]
       ELSE /\ tickpc' = [tickpc EXCEPT ![p] = "exit"]
            /\ UNCHANGED nticks
    /\ UNCHANGED <<running, seeder, servepc, pullpc, mapid, space, peers, picos,
                   q, unfinished, net, conn, sent, nevents>>

\* Mutant of Empty: the generator takes items with a get that waits, so the
\* end of the queue is never seen.
EmptyNeverSeen(queue) == FALSE

\* Peer.ready: get_nowait raises Empty, which ends the generator, when the
\* queue holds nothing; it never waits.
Empty(queue) == queue = <<>>

\* Mutant of Known: the new address is put in front of the address book.
KnownInFront(book, world, addr) ==
    IF addr \notin DOMAIN world THEN <<addr>> \o book ELSE book

\* The address book after Peer.sync met a datagram from addr.
Known(book, world, addr) ==
    IF addr \notin DOMAIN world THEN Append(book, addr) ELSE book

\* Peer.add_pico when the address has no pico yet.
Added(world, addr, pico) ==
    IF addr \notin DOMAIN world
    THEN [a \in DOMAIN world \cup {addr} |-> IF a = addr THEN pico ELSE world[a]]
    ELSE world

\* One round of the loop of Peer.sync over self.ready: get_nowait returned an
\* item; an unknown address gets into the address book and gets a pico, the
\* data is unpickled and applied, and the item is marked done when the
\* generator is resumed.  Unpickling bytes that are no pickle raises, and
\* nothing in sync, update or run catches it.
SyncItem(p) ==
    /\ tickpc[p] = "sync"
    /\ ~Empty(q[p])
    /\ q' = [q EXCEPT ![p] = Tail(@)]
    /\ peers' = [peers EXCEPT ![p] = Known(@, picos[p], Head(q[p]).addr)]
    /\ \E pico \in NewPicos :
         LET item == Head(q[p])
             world == Added(picos[p], item.addr, pico)
         IN  IF decodable(item.data)
             THEN /\ picos' = [picos EXCEPT ![p] =
                        [world EXCEPT ![item.addr] = PicoSync(@, loads(item.data))]]
                  /\ unfinished' = [unfinished EXCEPT ![p] = @ - 1]
                  /\ UNCHANGED tickpc
             ELSE /\ picos' = [picos EXCEPT ![p] = world]
                  /\ tickpc' = [tickpc EXCEPT ![p] = "raised"]
                  /\ UNCHANGED unfinished
    /\ UNCHANGED <<running, seeder, servepc, pullpc, mapid, space, net, conn,
                   sent, nticks, nevents>>

\* The shards of a world, each named by its owner and its id.
ShardKeys(world) ==
    UNION {{<<a, i>> : i \in DOMAIN world[a].shards} : a \in DOMAIN world}

\* What the geometry decides for a shard in Shard.update: whether it bounces,
\* and the first pico it comes close to, if any.
Fates(world) == [bounced : BOOLEAN, hit : DOMAIN world \cup {None}]

\* Shard.update, the power: one less after a bounce, zero after a hit.
Flown(power, fate) == IF fate.bounced THEN power - 1 ELSE power
Landed(power, fate) == IF fate.hit # None THEN 0 ELSE Flown(power, fate)

RECURSIVE Damage(_, _, _, _)
\* Shard.update, the health: the pico that is hit loses the shard's power.
Damage(world, fate, keys, a) ==
    IF keys = {} THEN 0
    ELSE LET k == CHOOSE k \in keys : TRUE
         IN  (IF fate[k].hit = a THEN Flown(world[k[1]].shards[k[2]], fate[k]) ELSE 0)
             + Damage(world, fate, keys \ {k}, a)

\* Mutant of Simulated: the shards that have no power left are kept.
SimulatedUnpruned(world, fate) ==
    [a \in DOMAIN world |->
        [world[a] EXCEPT
            !.health = @ - Damage(world, fate, ShardKeys(world), a),
            !.shards = [i \in DOMAIN world[a].shards |->
                          Landed(world[a].shards[i], fate[<<a, i>>])]]]

\* The loop of Peer.update over the shards of every pico: each shard is
\* updated, and only those that still have power are kept.
Simulated(world, fate) ==
    [a \in DOMAIN world |->
        [world[a] EXCEPT
            !.health = @ - Damage(world, fate, ShardKeys(world), a),
            !.shards = [i \in {j \in DOMAIN world[a].shards :
                                 Landed(world[a].shards[j], fate[<<a, j>>]) # 0} |->
                          Landed(world[a].shards[i], fate[<<a, i>>])]]]

\* Control.control: the events are polled (a click shoots, Pico.shoot), then
\* the protagonist is updated (Pico.update).
Controlled(world, p, shoot) ==
    {[world EXCEPT ![p] = c] :
        c \in PicoUpdate(IF shoot THEN add_shard(world[p]) ELSE world[p])}

RECURSIVE SendAll(_, _, _, _)
\* for peer in self.peers: self.sock.sendto(data, peer)
SendAll(n, src, dsts, data) ==
    IF dsts = <<>> THEN n
    ELSE SendAll(sendto(n, src, Head(dsts), data), src, Tail(dsts), data)

\* A push of the protagonist as it was when the tick began.
PushedFirst(n, p, world, k) ==
    SendAll(n, p, SubSeq(peers[p], 1, k), dumps(Snapshot(picos[p][p])))

\* Peer.push: the protagonist's snapshot is pickled and sent to the entries of
\* the address book in turn, here to the first k of them.
Pushed(n, p, world, k) ==
    SendAll(n, p, SubSeq(peers[p], 1, k), dumps(Snapshot(world[p])))

\* The sendto calls of a push that made n calls, of which the first m
\* returned: the destination of each call and whether it returned.
Calls(book, n, m) == [i \in 1..n |-> [to |-> book[i], ok |-> i <= m]]

\* The rest of Peer.update once get_nowait raised Empty and ended the loop of
\* Peer.sync: control, the update of the shards of every pico, push.  These
\* steps touch nothing another thread of the process writes, so they are one
\* step of the tick loop.
Update(p) ==
    /\ tickpc[p] = "sync"
    /\ Empty(q[p])
    /\ \E shoot \in BOOLEAN :
         /\ shoot => ~dead(picos[p][p]) /\ nevents < MaxEvents
         /\ \E controlled \in Controlled(picos[p], p, shoot) :
              \E fate \in [ShardKeys(controlled) -> Fates(controlled)] :
                 LET world == Simulated(controlled, fate)
                 IN  /\ picos' = [picos EXCEPT ![p] = world]
                     /\ \/ /\ net' = Pushed(net, p, world, Len(peers[p]))
                           /\ sent' = [sent EXCEPT ![p] = Calls(peers[p], Len(peers[p]),
                                                                Len(peers[p]))]
                           /\ tickpc' = [tickpc EXCEPT ![p] = "loop"]
                           /\ nevents' = IF shoot THEN nevents + 1 ELSE nevents
                        \/ \E k \in 1..Len(peers[p]) :
                             \* the k-th sendto raises OSError: nothing in
                             \* push, update or run catches it
                             /\ ~shoot
                             /\ nevents < MaxEvents
                             /\ nevents' = nevents + 1
                             /\ net' = Pushed(net, p, world, k - 1)
                             /\ sent' = [sent EXCEPT ![p] = Calls(peers[p], k, k - 1)]
                             /\ tickpc' = [tickpc EXCEPT ![p] = "raised"]
    /\ UNCHANGED <<running, seeder, servepc, pullpc, mapid, space, peers, q,
                   unfinished, conn, nticks>>

\* Peer.__exit__ after the loop of run ended: self.q.join() waits until every
\* item put was marked done, then the socket is closed.
Exit(p) ==
    /\ tickpc[p] = "exit"
    /\ unfinished[p] = 0
    /\ tickpc' = [tickpc EXCEPT ![p] = "closed"]
    /\ net' = [net EXCEPT ![p] = EmptyBag]
    /\ UNCHANGED <<running, seeder, servepc, pullpc, mapid, space, peers, picos,
                   q, unfinished, conn, sent, nticks, nevents>>

----------------------------------------------------------------------------

Next ==
    \/ \E p \in Addr : Start(p) /\ UNCHANGED detail
    \/ \E p, s \in Addr : Connect(p, s) /\ UNCHANGED detail
    \/ \E p \in Addr : Join(p) /\ UNCHANGED detail
    \/ \E p \in Addr : Close(p) /\ UNCHANGED detail
    \/ \E s \in Addr : ServeAccept(s) /\ UNCHANGED detail
    \/ \E s \in Addr : ServeSend(s) /\ UNCHANGED detail
    \/ \E p \in Addr : PullRecv(p) /\ UNCHANGED detail
    \/ \E p \in Addr : PullRaise(p) /\ UNCHANGED detail
    \/ \E p \in Addr : PullEmpty(p) /\ UNCHANGED detail
    \/ \E p \in Addr : PullGet(p) /\ UNCHANGED detail
    \/ \E p \in Addr : Foreign(p) /\ UNCHANGED detail
    \/ \E p \in Addr : Loop(p) /\ UNCHANGED detail
    \/ \E p \in Addr : SyncItem(p) /\ UNCHANGED detail
    \/ \E p \in Addr : Update(p) /\ UNCHANGED detail
    \/ \E p \in Addr : Exit(p) /\ UNCHANGED detail

Spec == Init /\ [][Next]_vars

----------------------------------------------------------------------------
(* A session whose ticks never run out: nobody closes a window, clicks,    *)
(* holds a key or sends bytes that are no pickle, and no system call       *)
(* fails, so that what the peers come to know of one another for ever can  *)
(* be looked at.                                                            *)

\* Items the queue of a peer holds at most before its receive loop waits.
MaxQueue == 1

\* No process yet at any address, and every event of Close, Foreign, a click
\* or a failing call has been spent.
Quiet ==
    /\ running = [p \in Addr |-> TRUE]
    /\ seeder = [p \in Addr |-> None]
    /\ tickpc = [p \in Addr |-> "absent"]
    /\ servepc = [p \in Addr |-> "off"]
    /\ pullpc = [p \in Addr |-> "off"]
    /\ mapid = [p \in Addr |-> <<>>]
    /\ space = [p \in Addr |-> <<>>]
    /\ peers = [p \in Addr |-> <<>>]
    /\ picos = [p \in Addr |-> NoPicos]
    /\ q = [p \in Addr |-> <<>>]
    /\ unfinished = [p \in Addr |-> 0]
    /\ net = [p \in Addr |-> EmptyBag]
    /\ conn = [p \in Addr |-> [state |-> "none", recvd |-> <<>>]]
    /\ sent = [p \in Addr |-> <<>>]
    /\ nticks = 0
    /\ nevents = MaxEvents

\* The process at address 1 runs with no seeder and has met, through
\* Peer.sync, a peer at address 2 whose process has ended since: its address
\* is still in the book and its pico still in the map of picos.
Revisited ==
    /\ running = [p \in Addr |-> TRUE]
    /\ seeder = [p \in Addr |-> None]
    /\ tickpc = [p \in Addr |-> IF p = 1 THEN "loop" ELSE "absent"]
    /\ servepc = [p \in Addr |-> IF p = 1 THEN "accept" ELSE "off"]
    /\ pullpc = [p \in Addr |-> IF p = 1 THEN "recvfrom" ELSE "off"]
    /\ \E id \in mapidgen, pico \in NewPicos :
         /\ mapid = [p \in Addr |-> IF p = 1 THEN id ELSE <<>>]
         /\ space = [p \in Addr |-> IF p = 1 THEN mapgen(id) ELSE <<>>]
         /\ picos = [p \in Addr |->
                       IF p = 1 THEN Added(Added(NoPicos, 1, pico), 2, pico)
                       ELSE NoPicos]
    /\ peers = [p \in Addr |-> IF p = 1 THEN Known(<<>>, NoPicos, 2) ELSE <<>>]
    /\ q = [p \in Addr |-> <<>>]
    /\ unfinished = [p \in Addr |-> 0]
    /\ net = [p \in Addr |-> EmptyBag]
    /\ conn = [p \in Addr |-> [state |-> "none", recvd |-> <<>>]]
    /\ sent = [p \in Addr |-> <<>>]
    /\ nticks = 0
    /\ nevents = MaxEvents

\* while self.is_running in Peer.run, the window being open: the next tick
\* begins.  The ticks are not counted.
Turn(p) ==
    /\ tickpc[p] = "loop"
    /\ running[p]
    /\ tickpc' = [tickpc EXCEPT ![p] = "sync"]
    /\ UNCHANGED <<running, seeder, servepc, pullpc, mapid, space, peers, picos,
                   q, unfinished, net, conn, sent, nticks, nevents>>

\* Peer.pull, one round, while the queue is not longer than MaxQueue.
Receive(p) ==
    /\ Len(q[p]) < MaxQueue
    /\ PullRecv(p)

\* The rest of Peer.update with no key held down.
Idle(p) ==
    /\ Update(p)
    /\ picos'[p][p].pos = picos[p][p].pos

\* The rest of Peer.update with no key held down, at a moment when every
\* datagram sent earlier to a destination of the push has been received and
\* synced there, so that the push loses nothing.
Beat(p) ==
    /\ \A d \in Range(peers[p]) : bound(d) => net[d] = EmptyBag /\ q[d] = <<>>
    /\ Idle(p)

\* Two processes: the one that starts the session and one joiner.
Pair == 1..2

PairInit ==
    /\ Quiet
    /\ solid = {}
    /\ hero = None
    /\ foe = None
    /\ last = NoCall
    /\ born = {}

PairNext ==
    \/ \E p \in Pair : Start(p) /\ UNCHANGED detail
    \/ \E p, s \in Pair : Connect(p, s) /\ UNCHANGED detail
    \/ \E p \in Pair : Join(p) /\ UNCHANGED detail
    \/ \E s \in Pair : ServeAccept(s) /\ UNCHANGED detail
    \/ \E s \in Pair : ServeSend(s) /\ UNCHANGED detail
    \/ \E p \in Pair : Receive(p) /\ UNCHANGED detail
    \/ \E p \in Pair : Turn(p) /\ UNCHANGED detail
    \/ \E p \in Pair : SyncItem(p) /\ UNCHANGED detail
    \/ \E p \in Pair : Idle(p) /\ UNCHANGED detail

\* Every thread of every process keeps taking steps: the tick loop (the main
\* thread, whose step in the loop of Peer.sync is get_nowait, returning an
\* item or raising Empty), the receive loop and the Bootstrap Service (daemon
\* threads), and a joiner reads the reply it was sent.  When the users start
\* processes is up to them.
PairThreads ==
    /\ \A p \in Pair : WF_vars((Turn(p) \/ SyncItem(p) \/ Idle(p)) /\ UNCHANGED detail)
    /\ \A p \in Pair : WF_vars(Receive(p) /\ UNCHANGED detail)
    /\ \A p \in Pair : WF_vars((ServeAccept(p) \/ ServeSend(p)) /\ UNCHANGED detail)
    /\ \A p \in Pair : WF_vars(Join(p) /\ UNCHANGED detail)

PairSpec == PairInit /\ [][PairNext]_vars /\ PairThreads

MeshInit ==
    /\ Quiet \/ Revisited
    /\ solid = {}
    /\ hero = None
    /\ foe = None
    /\ last = NoCall
    /\ born = {}

MeshNext ==
    \/ \E p \in Addr : Start(p) /\ UNCHANGED detail
    \/ \E p, s \in Addr : Connect(p, s) /\ UNCHANGED detail
    \/ \E p \in Addr : Join(p) /\ UNCHANGED detail
    \/ \E s \in Addr : ServeAccept(s) /\ UNCHANGED detail
    \/ \E s \in Addr : ServeSend(s) /\ UNCHANGED detail
    \/ \E p \in Addr : Receive(p) /\ UNCHANGED detail
    \/ \E p \in Addr : Turn(p) /\ UNCHANGED detail
    \/ \E p \in Addr : SyncItem(p) /\ UNCHANGED detail
    \/ \E p \in Addr : Beat(p) /\ UNCHANGED detail

\* As PairThreads, for every address.
MeshThreads ==
    /\ \A p \in Addr : WF_vars((Turn(p) \/ SyncItem(p) \/ Beat(p)) /\ UNCHANGED detail)
    /\ \A p \in Addr : WF_vars(Receive(p) /\ UNCHANGED detail)
    /\ \A p \in Addr : WF_vars((ServeAccept(p) \/ ServeSend(p)) /\ UNCHANGED detail)
    /\ \A p \in Addr : WF_vars(Join(p) /\ UNCHANGED detail)

MeshSpec == MeshInit /\ [][MeshNext]_vars /\ MeshThreads

----------------------------------------------------------------------------
(* One world in detail: the methods of Pico and Shard are called on a pico *)
(* made by Pico.__init__, in a map that is one of Spaces.                   *)

\* Rotations: forward (the last row) along +z, along +x, along -x.
Rots ==
    {<<<<1, 0, 0>>, <<0, 1, 0>>, <<0, 0, 1>>>>,
     <<<<0, 0, -1>>, <<0, 1, 0>>, <<1, 0, 0>>>>,
     <<<<0, 0, 1>>, <<0, 1, 0>>, <<-1, 0, 0>>>>}

\* Maps: an empty one, and one with the cell next to the origin occupied.
Spaces == {{}, {<<1, 0, 0>>}}

\* Positions Pico.__init__ may draw (those that are placeable are kept): in
\* the cell at the origin, touching the plane x = 0, in the middle, and in
\* between, off the grid of the strides; and in the cell that may be a wall.
Spots ==
    {<<RPICO, 3 * RPICO, 3 * RPICO>>, <<3 * RPICO, 3 * RPICO, 3 * RPICO>>,
     <<2 * RPICO - 2, 3 * RPICO, 3 * RPICO>>, <<9 * RPICO, 3 * RPICO, 3 * RPICO>>}

\* The shards of a snapshot, each (position, rotation, power): positions in
\* the map, below it by less than the gap between floats, and beyond it.
ShardTuples ==
    {<<<<3 * RPICO, 3 * RPICO, 3 * RPICO>>, CHOOSE r \in Rots : r[3][3] = 1, SHARD_LIFE>>,
     <<<<0 - 1, X + RPICO, Z>>, CHOOSE r \in Rots : r[3][1] = 1, 1>>}

\* The functions from a subset of the set S to the set T.
Maps(S, T) == UNION {[D -> T] : D \in SUBSET S}

\* The snapshots a pico is synchronized with.
Snapshots ==
    {<<h, x, CHOOSE r \in Rots : r[3][3] = 1, m>> :
        h \in {FULL, 1},
        x \in {CHOOSE x \in Spots : TRUE, <<X + RPICO, 0 - RPICO, Z + 3 * RPICO>>},
        m \in Maps(1..2, ShardTuples)}

\* The keys held down in a tick: right, upward, forward of Control.control.
Intents == {<<r, 0, f>> : r, f \in {0 - 1, 0, 1}}

\* A pico of another peer, made by Peer.add_pico, to be synchronized.
SyncInit ==
    /\ NoPeer
    /\ solid \in Spaces
    /\ hero = None
    /\ foe \in Spawned(solid, Spots, Rots)
    /\ last = NoCall
    /\ born = {}

\* picos[addr].sync(*loads(data)) of Peer.sync, on the pico of the other peer
Sync(s) ==
    /\ foe' = Pico_sync(foe, s[1], s[2], s[3], s[4])
    /\ last' = [call |-> "sync", self |-> foe, args |-> s]
    /\ UNCHANGED <<peer, nticks, solid, hero, born>>

SyncNext == \E s \in Snapshots : Sync(s)

SyncSpec == SyncInit /\ [][SyncNext]_vars

\* The protagonist: made by Pico.__init__ at a placeable position; it has
\* shot or not (forward or backward), and has been hit or not.
PicoInit ==
    /\ NoPeer
    /\ solid \in Spaces
    /\ \E c \in Spawned(solid, Spots, Rots) : \E h \in {FULL, FULL - 1, 0, 0 - 1} :
          hero \in {[d EXCEPT !.health = h] :
                      d \in {c, Pico_shoot(c, FALSE), Pico_shoot(c, TRUE)}}
    /\ foe = None
    /\ last = NoCall
    /\ born = DOMAIN hero.shards

\* self.pico.update(right, upward, forward) of Control.control
Control(keys) ==
    /\ nticks < MaxTicks
    /\ nticks' = nticks + 1
    /\ \E r \in Pico_update(hero, solid, Spots, Rots, keys[1], keys[2], keys[3]) :
         /\ hero' = r.self
         /\ last' = [call |-> "update", self |-> hero, args |-> keys,
                     raised |-> r.raised]
    /\ UNCHANGED <<peer, solid, foe, born>>

\* Control.shoot on a click: self.camera.shoot(), or shoot(backward=True) for
\* the second button.
Shoot(backward) ==
    /\ hero' = Pico_shoot(hero, backward)
    /\ born' = born \cup DOMAIN hero'.shards
    /\ last' = [call |-> "shoot", self |-> hero, args |-> backward,
                raised |-> Nothing]
    /\ UNCHANGED <<peer, nticks, solid, foe>>

PicoNext ==
    \/ \E keys \in Intents : Control(keys)
    \/ \E backward \in BOOLEAN : Shoot(backward)

PicoSpec == PicoInit /\ [][PicoNext]_vars

\* What the keys ask for in the world of the shards, and the mouse buttons.
Keys == {<<0, 0, 0>>, <<0, 0, 1>>}
Clicks == {"none", "1st", "2nd"}

\* The list Peer.push pickles, for a pico in detail: health, position,
\* rotation, and position, rotation and power of every shard by its id.
Pico_snapshot(c) ==
    <<c.health, c.pos, c.rot,
      [i \in DOMAIN c.shards |->
          <<c.shards[i].pos, c.shards[i].rot, c.shards[i].power>>]>>

\* A peer at address 1 and its pico as the peer at address 2 has it (made by
\* Peer.add_pico), address 2 being in the book of the former.
RelayInit ==
    /\ NoPeer
    /\ solid \in Spaces
    /\ hero \in Spawned(solid, Spots, Rots)
    /\ foe \in Spawned(solid, Spots, Rots)
    /\ last = NoCall
    /\ born = {}

\* Peer.update of the peer at address 1 with nothing in its queue: control,
\* then push.  The datagram gets into the socket buffer of address 2; what
\* was pushed is logged in sent.  The field nth, the number of the push, is
\* no part of the datagram: the code sends the pickled list alone.
Relay(keys) ==
    /\ nticks < MaxTicks
    /\ nticks' = nticks + 1
    /\ \E u \in Pico_update(hero, solid, Spots, Rots, keys[1], keys[2], keys[3]) :
         /\ u.raised = Nothing
         /\ hero' = u.self
         /\ net' = [net EXCEPT ![2] = @ (+) SetToBag({[data |-> dumps(Pico_snapshot(u.self)),
                                                        addr |-> 1, nth |-> nticks + 1]})]
         /\ sent' = [sent EXCEPT ![1] = Append(@, [to |-> 2, ok |-> TRUE,
                                                   data |-> dumps(Pico_snapshot(u.self))])]
    /\ UNCHANGED <<running, seeder, tickpc, servepc, pullpc, mapid, space, peers,
                   picos, q, unfinished, conn, nevents, solid, foe, last, born>>

\* The peer at address 2 receives a datagram, whichever the network delivers
\* next, and its next drain applies it: picos[addr].sync(*loads(data)).  The
\* record of the call keeps the number of the push applied and the greatest
\* number applied so far.
Apply ==
    \E m \in BagToSet(net[2]) :
      /\ net' = [net EXCEPT ![2] = @ (-) SetToBag({m})]
      /\ foe' = Pico_sync(foe, loads(m.data)[1], loads(m.data)[2], loads(m.data)[3],
                          loads(m.data)[4])
      /\ last' = [call |-> "sync", self |-> foe, args |-> loads(m.data), nth |-> m.nth,
                  top |-> Max(m.nth, IF last.call = "sync" THEN last.top ELSE 0)]
      /\ UNCHANGED <<running, seeder, tickpc, servepc, pullpc, mapid, space, peers,
                     picos, q, unfinished, conn, sent, nevents, nticks, solid, hero,
                     born>>

RelayNext == (\E keys \in Keys : Relay(keys)) \/ Apply

RelaySpec == RelayInit /\ [][RelayNext]_vars

\* Where the other pico may be: the positions above, one stride of a shard
\* ahead of the middle along x, and just beyond the cell that may be a wall.
FoeSpots ==
    Spots \cup {<<6 * RPICO, 3 * RPICO, 3 * RPICO>>, <<13 * RPICO, 3 * RPICO, 3 * RPICO>>}

\* A shard a snapshot may have brought: it touches the cell that may be a
\* wall and flies away from it.
Grazing ==
    1 :> <<<<12 * RPICO, 3 * RPICO, 3 * RPICO>>, CHOOSE r \in Rots : r[3][1] = 1, SHARD_LIFE>>

\* Two picos in a space, the protagonist first as in Peer.__init__; the other
\* may have shot, as its peer's snapshot said.
ShardInit ==
    /\ NoPeer
    /\ solid \in Spaces
    /\ hero \in Spawned(solid, Spots, Rots)
    /\ \E c \in Spawned(solid, FoeSpots, {CHOOSE r \in Rots : r[3][1] = 0 - 1}) :
          foe \in {c, Pico_shoot(c, FALSE),
                   Pico_sync(c, c.health, c.pos, c.rot, Grazing)}
    /\ last = NoCall
    /\ born = {}

\* One Peer.update with nothing in the queue, the network left out: control
\* (the click shoots, then Pico.update), then Shard.update on every shard of
\* every pico and the shards with no power dropped.  An IndexError ends the
\* program.
Tick(keys, click) ==
    /\ nticks < MaxTicks
    /\ last.call = "tick" => last.raised = Nothing
    /\ nticks' = nticks + 1
    /\ LET shot == IF click = "none" THEN hero ELSE Pico_shoot(hero, click = "2nd")
       IN  /\ born' = born \cup DOMAIN shot.shards
           /\ \E u \in Pico_update(shot, solid, Spots, Rots, keys[1], keys[2], keys[3]) :
              \E r \in (IF u.raised # Nothing
                        THEN {[world |-> <<u.self, foe>>, raised |-> u.raised]}
                        ELSE Shards_updated(<<u.self, foe>>, solid, 1,
                                            DOMAIN u.self.shards)) :
                 /\ hero' = r.world[1]
                 /\ foe' = r.world[2]
                 /\ last' = [call |-> "tick", self |-> <<u.self, foe>>,
                             args |-> <<keys, click>>, raised |-> r.raised]
    /\ UNCHANGED <<peer, solid>>

ShardNext == \E keys \in Keys, click \in Clicks : Tick(keys, click)

ShardSpec == ShardInit /\ [][ShardNext]_vars

\* Coordinates a caller may pass: around the origin (below it by less than
\* the gap between the floats next to a period too), around the first wall
\* of a cell and around a period of x.
Coords ==
    ((0 - RPICO)..RPICO) \cup ((Cell - RPICO)..(Cell + 1)) \cup ((X - RPICO)..(X + 2))
Radii == {0, RSHARD, RPICO}

CallInit ==
    /\ NoPeer
    /\ solid \in Spaces
    /\ hero = None
    /\ foe = None
    /\ last = NoCall
    /\ born = {}

\* shard.pos = position: each coordinate is stored modulo the period of its
\* axis.
SetPos(position) ==
    /\ last' = [call |-> "pos", args |-> position,
                self |-> Shard(position, CHOOSE r \in Rots : r[3][3] = 1, SHARD_LIFE)]
    /\ UNCHANGED <<peer, nticks, solid, hero, foe, born>>

\* placeable(space, x, y, z, r): what it returns, or the error it raises.
Place(x, y, z, r) ==
    /\ last' = [call |-> "placeable", args |-> <<x, y, z, r>>,
                result |-> placeable(solid, x, y, z, r)]
    /\ UNCHANGED <<peer, nticks, solid, hero, foe, born>>

CallNext ==
    \/ \E p \in Coords : SetPos(<<p, p, p>>)
    \/ \E x \in Coords, y, z \in {0 - 1, 3 * RPICO}, r \in Radii : Place(x, y, z, r)

CallSpec == CallInit /\ [][CallNext]_vars

----------------------------------------------------------------------------
(* Claims *)

\* Peer.__init__ has returned for the process at the address.
constructed(p) == tickpc[p] \notin {"absent", "recv"}

\* The number of entries of a sequence that satisfy a test.
Count(seq, Test(_)) == Cardinality({i \in DOMAIN seq : Test(seq[i])})

\* C1: a peer that joined through the Bootstrap Service of a seeder holds the
\* seeder's map ID, so that all peers linked by a chain of joins hold the same
\* map ID and the same occupancy space, whatever joins and ticks came before.
C1_SameMap ==
    /\ \A p \in Addr : constructed(p) /\ seeder[p] # None =>
            mapid[p] = mapid[seeder[p]]
    /\ \A p, r \in Addr : constructed(p) /\ constructed(r) =>
            mapid[p] = mapid[r] /\ space[p] = space[r]

\* C1, witness: a chain of two joins (3 through 2, 2 through 1), with ticks.
C1_Witness ==
    /\ seeder[2] = 1 /\ seeder[3] = 2
    /\ constructed(2) /\ constructed(3)
    /\ nticks > 1

\* C2: on a connection the Bootstrap Service sends nothing before it accepted
\* it, and by the time it closed it, it has sent exactly one payload: its map
\* ID, and its address book (as it was when it sent) followed by its address.
C2_OneReply ==
    \A p \in Addr :
        /\ conn[p].state \in {"none", "pending", "accepted"} => conn[p].recvd = <<>>
        /\ conn[p].state = "closed" =>
             /\ Len(conn[p].recvd) = 1
             /\ decodable(conn[p].recvd[1])
             /\ loads(conn[p].recvd[1])[1] = mapid[seeder[p]]
             /\ \E k \in 0..Len(peers[seeder[p]]) :
                  loads(conn[p].recvd[1])[2] =
                      SubSeq(peers[seeder[p]], 1, k) \o <<seeder[p]>>

\* C2, witness: a reply that lists a peer before the seeder's own address.
C2_Witness ==
    \E p \in Addr : conn[p].state = "closed" /\ Len(loads(conn[p].recvd[1])[2]) > 1

\* C3: the address book holds no address twice.
C3_NoDuplicates ==
    \A p \in Addr : \A i, j \in DOMAIN peers[p] :
        peers[p][i] = peers[p][j] => i = j

\* C4: the world of a peer holds a pico for its own address and for every
\* address of its address book, and for no other address.
C4_PicoPerKnownAddress ==
    \A p \in Addr : constructed(p) => DOMAIN picos[p] = {p} \cup Range(peers[p])

\* A step in which the tick loop of p took the first item out of the queue
\* (the shutdown drain of pull takes items too, and moves pullpc).
Synced(p) ==
    /\ tickpc[p] = "sync"
    /\ q[p] # <<>>
    /\ q'[p] = Tail(q[p])
    /\ pullpc'[p] = pullpc[p]

\* C5: when the tick loop processes a datagram from an address that has no
\* pico, the address is in the address book and has a pico afterwards; if the
\* data is a pickle the pico holds its health, position and rotation, and if
\* it is none the pico is the new one, made before the data was looked at.
C5_UnknownSourceSynced ==
    [][\A p \in Addr :
         Synced(p) /\ Head(q[p]).addr \notin DOMAIN picos[p] =>
             LET item == Head(q[p])
             IN  /\ peers'[p] = Append(peers[p], item.addr)
                 /\ DOMAIN picos'[p] = DOMAIN picos[p] \cup {item.addr}
                 /\ IF decodable(item.data)
                    THEN /\ picos'[p][item.addr].health = loads(item.data)[1]
                         /\ picos'[p][item.addr].pos = loads(item.data)[2]
                         /\ picos'[p][item.addr].rot = loads(item.data)[3]
                    ELSE picos'[p][item.addr] \in NewPicos]_vars

\* C5, witness: in the second tick of the session a peer holds a pico for
\* another address at a position no new pico has: the position of the first
\* snapshot it was sent, which came from an address it had no pico for.
C5_Witness ==
    \E p \in Addr : \E a \in DOMAIN picos[p] :
        /\ nticks = 2
        /\ tickpc[p] = "sync"
        /\ a # p
        /\ picos[p][a].pos \notin SpawnVals

\* C6: a push that ends sent exactly one datagram to each address of the
\* address book.
C6_OneDatagramEach ==
    [][\A p \in Addr :
         tickpc[p] = "sync" /\ tickpc'[p] = "loop" =>
             \A a \in Range(peers'[p]) :
                 Count(sent'[p], LAMBDA call : call.to = a /\ call.ok) = 1]_vars

\* C7: processing a datagram whose data is no pickle changes neither the
\* address book nor any pico, and the tick loop goes on draining.
C7_UndecodableDropped ==
    [][\A p \in Addr :
         Synced(p) /\ ~decodable(Head(q[p]).data) =>
             /\ peers'[p] = peers[p]
             /\ picos'[p] = picos[p]
             /\ tickpc'[p] = "sync"
             /\ pullpc'[p] = pullpc[p]]_vars

\* C8: a sendto that fails loses one datagram only: the tick loop has not
\* stopped and every entry of the address book after it was sent to; and no
\* failing recvfrom stops the receive loop.
C8_FailureTolerated ==
    \A p \in Addr :
        /\ pullpc[p] # "raised"
        /\ (\E i \in DOMAIN sent[p] : ~sent[p][i].ok) =>
              /\ tickpc[p] # "raised"
              /\ Len(sent[p]) = Len(peers[p])
              /\ Count(sent[p], LAMBDA call : ~call.ok) = 1

\* C9: the queue has a capacity, and never holds more items than that.
C9_QueueBounded ==
    \A p \in Addr : q[p] # <<>> => 0 < maxsize /\ Len(q[p]) <= maxsize

\* C10: the tick loop never waits for data: with the queue empty the rest of
\* the tick (control, shards, push) can be taken at once.
C10_NeverWaits ==
    \A p \in Addr : tickpc[p] = "sync" /\ q[p] = <<>> => ENABLED Update(p)

\* C10, witness: a peer that has pushed in a tick though it has never been
\* sent a datagram.
C10_Witness ==
    \E p \in Addr :
        /\ tickpc[p] = "loop"
        /\ sent[p] # <<>>
        /\ DOMAIN picos[p] = {p}
        /\ unfinished[p] = 0
        /\ net[p] = EmptyBag

\* C11: once the tick loop of a peer has ended, its shutdown needs no further
\* datagram: as long as the socket is open and the receive loop has not died
\* of an exception, either the exit step can return from q.join() or the
\* receive loop can take a step of its drain, also with nothing left to
\* receive.
C11_ShutdownNeedsNoDatagram ==
    \A p \in Addr :
        tickpc[p] = "exit" /\ pullpc[p] # "raised" /\ net[p] = EmptyBag =>
            ENABLED Exit(p) \/ ENABLED PullEmpty(p) \/ ENABLED PullGet(p)

\* C12: Pico.sync removes no shard: every id the pico had before the call it
\* has after it, and a shard whose id is not in the snapshot keeps its
\* position, rotation and power.
C12_SyncKeepsShards ==
    last.call = "sync" =>
        \A i \in DOMAIN last.self.shards :
            /\ i \in DOMAIN foe.shards
            /\ i \notin DOMAIN last.args[4] => foe.shards[i] = last.self.shards[i]

\* C12, witness: a pico that had a shard was synchronized with a snapshot
\* that has other shards but not that one.
C12_Witness ==
    /\ last.call = "sync"
    /\ DOMAIN last.args[4] # {}
    /\ DOMAIN last.self.shards \ DOMAIN last.args[4] # {}

\* C13: no step raises the power of a shard: in every world, of its owner or
\* of another peer, a shard that is tracked before and after a step has at
\* most the power it had.
C13_PowerNeverRaised ==
    [][\A p \in Addr : \A a \in DOMAIN picos[p] \cap DOMAIN picos'[p] :
         \A i \in DOMAIN picos[p][a].shards \cap DOMAIN picos'[p][a].shards :
             picos'[p][a].shards[i] <= picos[p][a].shards[i]]_vars

\* C14: between two ticks of a peer no pico of its world, its own or a
\* mirror, has a shard whose power is 0 or less.
C14_NoSpentShard ==
    \A p \in Addr : tickpc[p] # "sync" =>
        \A a \in DOMAIN picos[p] : \A i \in DOMAIN picos[p][a].shards :
            picos[p][a].shards[i] > 0

\* C14, witness: a peer between two ticks has no shard, while another peer
\* still tracks the shard it shot: the shard lost its power in a tick of its
\* owner and was removed in it.
C14_Witness ==
    \E p, r \in Addr :
        /\ p # r
        /\ tickpc[p] = "loop"
        /\ p \in DOMAIN picos[r]
        /\ DOMAIN picos[r][p].shards # {}
        /\ DOMAIN picos[p][p].shards = {}

\* C15: the protagonist, made at a placeable position and changed by
\* Pico.update only (moves with any keys, with or without recoil, respawns),
\* is placeable where it is.
C15_AlwaysPlaceable ==
    placeable(solid, hero.pos[1], hero.pos[2], hero.pos[3], RPICO) = {True}

\* C15, witness: a move was refused on one axis and made on another, and the
\* pico has passed the plane x = 0, where the coordinates wrap around.
C15_Witness ==
    /\ last.call = "update"
    /\ ~dead(last.self)
    /\ hero.pos[1] = last.self.pos[1]
    /\ hero.pos[3] # last.self.pos[3]
    /\ last.args[1] # 0 /\ last.args[3] # 0
    /\ hero.pos[1] > X - Cell

\* C16: a respawn (Pico.update of a dead pico) leaves the pico with exactly
\* full health, no shard, the recoil timer at zero and a placeable position.
C16_Respawn ==
    last.call = "update" /\ dead(last.self) =>
        /\ hero.health = FULL
        /\ hero.shards = NoShards
        /\ hero.recoil_t = 0
        /\ placeable(solid, hero.pos[1], hero.pos[2], hero.pos[3], RPICO) = {True}

\* A dead pico that had shot, its recoil still on, respawned in a space where
\* one of the positions that may be drawn is in a wall.
C16_Witness ==
    /\ last.call = "update" /\ dead(last.self)
    /\ last.self.shards # NoShards /\ last.self.recoil_t > 0
    /\ \E x \in Spots : True \notin placeable(solid, x[1], x[2], x[3], RPICO)
    /\ hero.health = FULL /\ hero.shards = NoShards

\* The shards Peer.update found in its world once control had returned, each
\* named by its owner and its id, and the world the update left.
TickShards == UNION {{<<a, i>> : i \in DOMAIN last.self[a].shards} : a \in 1..2}
TickWorld == <<hero, foe>>

\* A shard after its move in the tick, and the picos within RCOLL of it then.
Flight(k) ==
    (CHOOSE m \in Moved(last.self[k[1]].shards[k[2]], solid) : m.raised = Nothing).self
Reached(k) ==
    {b \in 1..2 : Norm2(last.self[b].pos, Flight(k).pos) <= RCOLL2}

RECURSIVE Drop(_, _)
\* The power, at the time of the contact, of the shards of keys that come
\* within RCOLL of the pico b: the power left after the move for the first
\* pico a shard touches, none for a later one.
Drop(keys, b) ==
    IF keys = {} THEN 0
    ELSE LET k == CHOOSE k \in keys : TRUE
         IN  (IF Reached(k) # {} /\ b = MinOf(Reached(k))
              THEN Flight(k).power ELSE 0) + Drop(keys \ {k}, b)

\* C17: when a shard, after its move in a tick, is within the collision radius
\* of a pico, the pico's health drops by exactly the power the shard has then
\* (in units of 1 / SHARD_LIFE / RPS), and the shard, its power 0, is no
\* longer in its owner's map when the tick ends.
C17_HitTakesPowerAndShard ==
    last.call = "tick" /\ last.raised = Nothing =>
        /\ \A b \in 1..2 :
              TickWorld[b].health = last.self[b].health - Drop(TickShards, b)
        /\ \A k \in TickShards :
              Reached(k) # {} => k[2] \notin DOMAIN TickWorld[k[1]].shards

\* A tick in which a shard that had bounced before reached a pico that is not
\* its owner, and another shard of the same world flew on.
C17_Witness ==
    /\ last.call = "tick" /\ last.raised = Nothing
    /\ \E k \in TickShards :
          /\ Reached(k) # {} /\ k[1] \notin Reached(k)
          /\ Flight(k).power \in 1..(SHARD_LIFE - 1)
          /\ TickWorld[MinOf(Reached(k))].health
                = last.self[MinOf(Reached(k))].health - Flight(k).power
    /\ \E k \in TickShards : k[2] \in DOMAIN TickWorld[k[1]].shards

\* The axes on which a shard of the tick should bounce: the coordinate it
\* heads for, put in place of its own, is not placeable with RSHARD.
Blocked(k) ==
    LET s == last.self[k[1]].shards[k[2]]
    IN  {j \in 1..3 : True \in should_bounce(s, solid, j, Ahead(s)[j])}

\* C18: when the coordinate a shard heads for is not placeable (radius
\* RSHARD) on exactly one axis, the update lowers its power by exactly 1 (a
\* shard left with none is dropped) and its forward is then the forward it had
\* with the component of that axis negated and the other two unchanged.  The
\* shards that end the move within RCOLL of a pico lose all power (C17).
C18_BounceOnOneAxis ==
    last.call = "tick" /\ last.raised = Nothing =>
        \A k \in TickShards :
            Cardinality(Blocked(k)) = 1 /\ Reached(k) = {} =>
                LET s == last.self[k[1]].shards[k[2]]
                    j == CHOOSE j \in Blocked(k) : TRUE
                    left == TickWorld[k[1]].shards
                IN  IF s.power = 1 THEN k[2] \notin DOMAIN left
                    ELSE /\ k[2] \in DOMAIN left
                         /\ left[k[2]].power = s.power - 1
                         /\ left[k[2]].rot[3] = [s.rot[3] EXCEPT ![j] = 0 - @]

\* A shard flying along x towards a wall bounced: it now flies the other way
\* with one bounce less.
C18_Witness ==
    /\ last.call = "tick" /\ last.raised = Nothing
    /\ \E k \in TickShards :
          /\ Blocked(k) = {1} /\ Reached(k) = {}
          /\ last.self[k[1]].shards[k[2]].rot[3][1] # 0
          /\ k[2] \in DOMAIN TickWorld[k[1]].shards
          /\ TickWorld[k[1]].shards[k[2]].rot[3][1]
                = 0 - last.self[k[1]].shards[k[2]].rot[3][1]
          /\ TickWorld[k[1]].shards[k[2]].power
                = last.self[k[1]].shards[k[2]].power - 1

\* C19: wrapping normalizes and is idempotent: every coordinate the setter
\* of pos stores is at least 0 and less than the period of its axis (12 cells
\* for x and y, 9 for z), and storing the stored position again changes
\* nothing, for coordinates below 0 and at or beyond the period as well.
C19_WrapNormalizes ==
    last.call = "pos" =>
        /\ \A k \in 1..3 : 0 <= last.self.pos[k] /\ last.self.pos[k] < Period(k)
        /\ ShardPos(last.self.pos) = last.self.pos

\* C20: placeable gives the same whether or not a coordinate is moved by a
\* whole period of its axis: 12 cells along x or y, 9 along z.
C20_PlaceablePeriodic ==
    last.call = "placeable" =>
        LET x == last.args[1]
            y == last.args[2]
            z == last.args[3]
            r == last.args[4]
        IN  /\ last.result = placeable(solid, fl(x + X), y, z, r)
            /\ last.result = placeable(solid, x, fl(y + X), z, r)
            /\ last.result = placeable(solid, x, y, fl(z + Z), r)

\* The datagrams a step adds to the socket buffer of d.
Sent(d) == BagToSet(net'[d] (-) net[d])

\* C21: a tick applies every buffered snapshot, then updates the protagonist,
\* then advances and prunes the shards of every pico, then pushes: a datagram
\* of a peer is sent in the step that ends its tick, when the queue has been
\* emptied, and it is the snapshot of that peer's own pico as the tick left
\* it, so it lists no shard with power 0.
C21_TickOrder ==
    [][\A p, d \in Addr : \A m \in Sent(d) :
          m.addr = p =>
              /\ tickpc[p] = "sync" /\ tickpc'[p] # "sync"
              /\ Empty(q[p])
              /\ m.data = dumps(Snapshot(picos'[p][p]))
              /\ \A i \in DOMAIN loads(m.data)[4] : loads(m.data)[4][i] # 0]_vars

\* A peer has pushed after its shard, known to a mirror from an earlier push,
\* was pruned: the datagram in the mirror's buffer lists no shard.
C21_Witness ==
    \E p, r \in Addr :
        /\ p # r /\ tickpc[p] = "loop" /\ p \in DOMAIN picos[r]
        /\ DOMAIN picos[r][p].shards # {}
        /\ picos[p][p].shards = NoShards
        /\ [data |-> dumps(Snapshot(picos[p][p])), addr |-> p] \in BagToSet(net[r])

\* C22: the ids of the shards of a pico are not reused: the id a shoot gives
\* is none that Pico.add_shard gave to a shard of that pico before, also when
\* shards were pruned since; it is 1 for the first shard and larger than every
\* id in the map.
C22_IdsNotReused ==
    [][last'.call = "tick" =>
          \A i \in DOMAIN last'.self[1].shards \ DOMAIN hero.shards :
              /\ i \notin born
              /\ \A j \in DOMAIN hero.shards : i > j
              /\ born = {} => i = 1]_vars

\* The shard a shoot has added, and the position a radius away from p along
\* the axis of u, on either side.
Fired == hero.shards[MaxOf(DOMAIN last.self.shards) + 1]
Beside(p, u) ==
    {ShardPos([k \in 1..3 |-> fl(p[k] + u[k] * RPICO)]),
     ShardPos([k \in 1..3 |-> fl(p[k] - u[k] * RPICO)])}

\* C23: a shoot that is not refused, forward or backward, adds a shard at the
\* pico's own position displaced by RPICO along the axis of the recoil and
\* wrapped, with the pico's rotation (negated for a backward shot) and the
\* power SHARD_LIFE.
C23_ShardBesidePico ==
    last.call = "shoot" /\ ~dead(last.self) /\ last.self.recoil_t = 0 =>
        /\ DOMAIN hero.shards = DOMAIN last.self.shards \cup {MaxOf(DOMAIN last.self.shards) + 1}
        /\ Fired.pos \in Beside(last.self.pos, hero.recoil_u)
        /\ Fired.rot = IF last.args THEN NegRows(last.self.rot) ELSE last.self.rot
        /\ Fired.power = SHARD_LIFE

C25_BounceMovesAhead ==
    last.call = "tick" /\ last.raised = Nothing =>
        \A k \in TickShards :
            Blocked(k) # {} /\ k[2] \in DOMAIN TickWorld[k[1]].shards =>
                TickWorld[k[1]].shards[k[2]].pos
                    = ShardPos(Ahead(last.self[k[1]].shards[k[2]]))

\* C26: bouncing lowers the power of a shard by at most 1 a tick: with two
\* or three axes blocked in one update each of them is reflected and the
\* power drops by exactly 1, and with no axis blocked and no pico reached the
\* power is what it was.
C26_OneBouncePerTick ==
    last.call = "tick" /\ last.raised = Nothing =>
        \A k \in TickShards :
            LET s == last.self[k[1]].shards[k[2]]
                left == TickWorld[k[1]].shards
            IN  Reached(k) = {} =>
                    IF Blocked(k) = {} THEN k[2] \in DOMAIN left /\ left[k[2]].power = s.power
                    ELSE IF s.power = 1 THEN k[2] \notin DOMAIN left
                    ELSE /\ k[2] \in DOMAIN left
                         /\ left[k[2]].power = s.power - 1
                         /\ left[k[2]].rot[3]
                              = [j \in 1..3 |-> IF j \in Blocked(k) THEN 0 - s.rot[3][j]
                                                ELSE s.rot[3][j]]

\* A shard with all three axes blocked came out of the tick with its forward
\* turned round and one bounce less.
C26_Witness ==
    /\ last.call = "tick" /\ last.raised = Nothing
    /\ \E k \in TickShards :
          /\ Blocked(k) = {1, 2, 3} /\ Reached(k) = {}
          /\ k[2] \in DOMAIN TickWorld[k[1]].shards
          /\ TickWorld[k[1]].shards[k[2]].power
                = last.self[k[1]].shards[k[2]].power - 1
          /\ TickWorld[k[1]].shards[k[2]].rot[3] = Neg(last.self[k[1]].shards[k[2]].rot[3])

\* C27: on a peer, the health, the position and the rotation of the pico of
\* another address change only in the step that applies a snapshot received
\* from that address; control and the update of the shards leave them alone.
C27_RemoteOnlyBySync ==
    [][\A p \in Addr : \A a \in (DOMAIN picos[p] \cap DOMAIN picos'[p]) \ {p} :
          \/ /\ picos'[p][a].health = picos[p][a].health
             /\ picos'[p][a].pos = picos[p][a].pos
             /\ picos'[p][a].rot = picos[p][a].rot
          \/ /\ tickpc[p] = "sync"
             /\ ~Empty(q[p])
             /\ Head(q[p]).addr = a]_vars

\* A position in the fundamental domain: x and y in [0, 12 cells), z in
\* [0, 9 cells).
Wrapped(pos) == \A k \in 1..3 : 0 <= pos[k] /\ pos[k] < Period(k)

\* C28: every stored coordinate is wrapped: a pico, also one whose position
\* was overwritten by a snapshot with any position, and each of its shards
\* have x and y in [0, 12) and z in [0, 9).
C28_StoredWrapped ==
    /\ Wrapped(foe.pos)
    /\ \A i \in DOMAIN foe.shards : Wrapped(foe.shards[i].pos)

\* C29: a pico whose health is below zero when a local update starts is
\* alive with full health when it returns, and is then a pico just made: the
\* keys moved nothing, nothing was regenerated, the recoil did not run down
\* but was cleared.  A pico with health exactly 0 is alive: it is updated, not
\* made anew.
C29_DeadForOneUpdate ==
    last.call = "update" /\ last.raised = Nothing =>
        /\ ~dead(hero)
        /\ dead(last.self) => hero \in Spawned(solid, Spots, Rots)
        /\ last.self.health = 0 =>
              /\ hero.health = 0
              /\ hero.shards = last.self.shards
              /\ hero.rot = last.self.rot
              /\ hero.recoil_u = last.self.recoil_u
              /\ hero.recoil_t = Max(last.self.recoil_t - 1, 0)

\* A pico with health 0, a shard in flight and its recoil on was updated: it
\* moved, kept its shard, and its recoil ran down.
C29_Witness ==
    /\ last.call = "update" /\ last.self.health = 0
    /\ last.self.shards # NoShards /\ last.self.recoil_t = RECOIL
    /\ hero.pos # last.self.pos /\ hero.shards = last.self.shards
    /\ hero.recoil_t = RECOIL - 1

\* C30: the health of the protagonist is never above full, and an update of
\* a living pico never lowers it.
C30_HealthCapped ==
    /\ hero.health <= FULL
    /\ last.call = "update" /\ ~dead(last.self) => hero.health >= last.self.health

\* An update regenerated a pico that was one unit short up to full health.
C30_Witness ==
    /\ last.call = "update" /\ last.self.health = FULL - 1
    /\ hero.health = FULL

\* One sequence is the beginning of another.
Prefix(old, new) ==
    /\ Len(old) <= Len(new)
    /\ \A i \in DOMAIN old : new[i] = old[i]

\* C31: while the process of a peer lives, its address book and its map of
\* picos only grow: the book before a step is a prefix of the book after it
\* (nothing removed, nothing reordered), and every address that has a pico
\* before the step has one after it.
C31_BookAndWorldGrow ==
    [][\A p \in Addr :
         constructed(p) =>
           /\ Prefix(peers[p], peers'[p])
           /\ DOMAIN picos[p] \subseteq DOMAIN picos'[p]]_vars

\* A peer that started with an address in its book has put a second address
\* behind it and has a pico for that address.
C31_Witness ==
    \E p \in Addr :
      /\ constructed(p)
      /\ Len(peers[p]) >= 2
      /\ seeder[p] # None
      /\ peers[p][1] = seeder[p]
      /\ peers[p][Len(peers[p])] \in DOMAIN picos[p] \ {p}

\* C32: the list of peers that the Bootstrap Service sends is the address
\* book (followed by the own address) as it is at the instant of the send,
\* and at that instant every address of the list other than the responder's
\* own has a pico in the responder's map of picos.
C32_ReplyListsCharacters ==
    [][\A s, p \in Addr :
         (servepc[s] = "send" /\ conn'[p] # conn[p] /\ conn'[p].state = "closed") =>
           LET reply == conn'[p].recvd[Len(conn'[p].recvd)]
               list == loads(reply)[2]
           IN  /\ list = peers[s] \o <<s>>
               /\ Range(list) \ {s} \subseteq DOMAIN picos[s]]_vars

\* The peer at p has the address r in its book and a pico for it.
Meets(p, r) == r \in Range(peers[p]) /\ r \in DOMAIN picos[p]

\* Fair scheduling and fair delivery: every tick loop ends its drain and
\* pushes again and again (in MeshSpec a push loses nothing, and what it
\* sent is received and synced before the next push to the same address).
Ticking == \A p \in Addr : []<>(tickpc[p] # "sync")

\* C33: the mesh becomes complete: under fair scheduling and delivery, of
\* any two running peers of a session each eventually has the other in its
\* address book and in its map of picos, also when both joined through the
\* same seeder.
C33_MeshCompletes ==
    Ticking =>
      \A p, r \in Addr :
        (p # r /\ constructed(p) /\ constructed(r)) ~> Meets(p, r)

\* C34: a peer x that has the address of a running peer y in its book is
\* eventually in the book of y, with a pico of its own there.
C34_KnownBack ==
    \A x, y \in Pair :
      (x # y /\ constructed(x) /\ constructed(y) /\ y \in Range(peers[x]))
        ~> Meets(y, x)

\* C39: a tick that began its drain gets to its push, which ends the tick.
C39_DrainEnds ==
    \A p \in Pair : (tickpc[p] = "sync") ~> (tickpc[p] = "loop")

\* C37: the address book of a peer never holds the peer's own address, so
\* that no datagram a peer receives or has in its queue was sent by itself.
C37_NeverOwnAddress ==
    \A p \in Addr :
      constructed(p) =>
        /\ p \notin Range(peers[p])
        /\ \A m \in BagToSet(net[p]) \cup Range(q[p]) : m.addr # p

\* C36: a snapshot applied to a pico a second time, right after it was
\* applied, changes nothing: the pico is as the first application left it.
C36_SyncTwiceIsSyncOnce ==
    [][(last.call = "sync" /\ last'.call = "sync" /\ last'.args = last.args)
         => foe' = foe]_vars

\* A snapshot that has shards was applied to a pico that was already as the
\* snapshot's application leaves it, a spawned pico having no shard.
C36_Witness ==
    /\ last.call = "sync"
    /\ DOMAIN last.args[4] # {}
    /\ last.self = foe
    /\ foe.health = last.args[1]
    /\ foe.pos = last.args[2]

\* C35: after a snapshot of a peer was applied, the health, position and
\* rotation of its mirror are those of the snapshot sent last among all that
\* were applied so far: one sent earlier never overwrites one sent later.
C35_LatestSentWins ==
    last.call = "sync" =>
        LET latest == loads(sent[1][last.top].data)
        IN  /\ foe.health = latest[1]
            /\ foe.pos = latest[2]
            /\ foe.rot = latest[3]

\* C38: every datagram put into the queue is taken out once, in the order of
\* arrival, by the tick loop or by the shutdown drain, and every item taken
\* out is marked done once: a step changes the queue by one item put at its
\* end or by its first item taken, taken by one of the two and marked done
\* in the step; the items not marked done are never fewer than none, and are
\* none when the queue is empty.
C38_QueueAccounting ==
    [][\A p \in Addr :
         /\ \/ q'[p] = q[p] /\ unfinished'[p] = unfinished[p]
            \/ /\ \E m \in BagToSet(net[p]) : q'[p] = Append(q[p], m)
               /\ unfinished'[p] = unfinished[p] + 1
            \/ /\ q[p] # <<>>
               /\ q'[p] = Tail(q[p])
               /\ unfinished'[p] = unfinished[p] - 1
               /\ \/ tickpc[p] = "sync" /\ pullpc'[p] = pullpc[p]
                  \/ /\ pullpc[p] = "get" /\ pullpc'[p] # "get"
                     /\ picos'[p] = picos[p] /\ peers'[p] = peers[p]
         /\ unfinished'[p] >= 0
         /\ q'[p] = <<>> => unfinished'[p] = 0]_vars

\* C40: the recoil limits the rate of fire.  A call of shoot creates at most
\* one shard, and creates it only when the recoil timer is exactly 0; the
\* shot sets the timer above 0, so a shoot that follows a shot with no update
\* between them creates nothing.  The timer is never negative; an update
\* creates no shard and never raises the timer, and the update that makes a
\* dead pico anew leaves the timer at 0.
C40_RecoilLimitsFire ==
    [][LET new == DOMAIN hero'.shards \ DOMAIN hero.shards
       IN  /\ hero'.recoil_t >= 0
           /\ last'.call = "shoot" =>
                 /\ Cardinality(new) <= 1
                 /\ new # {} => /\ hero.recoil_t = 0
                                /\ ~dead(hero)
                                /\ hero'.recoil_t > 0
                 /\ new = {} => hero'.recoil_t = hero.recoil_t
                 /\ (last.call = "shoot" /\ last.self.shards # hero.shards) => new = {}
           /\ last'.call = "update" =>
                 /\ new = {}
                 /\ hero'.recoil_t <= hero.recoil_t
                 /\ dead(hero) => hero'.recoil_t = 0]_vars

\* A second shard was shot once the timer set by the first shot had run
\* down to 0 in updates.
C40_Witness ==
    /\ last.call = "shoot"
    /\ last.self.recoil_t = 0
    /\ hero.recoil_t = RECOIL
    /\ Cardinality(DOMAIN hero.shards) >= 2
    /\ nticks >= RECOIL

====
